---- MODULE Spec2Model ----
(***************************************************************************)
(* A model of the numerical core of setk's sptk scripts: the AuxIVA blind  *)
(* source separation loop (apply_auxiva.py), the sound source localization *)
(* estimators (libs/ssl.py) and the IPD branch of the spatial feature      *)
(* script (compute_ipd_and_linear_srp.py).                                 *)
(*                                                                         *)
(* Numbers are exact: a real is a reduced fraction <<n, d>> with d > 0, a  *)
(* complex number is a pair <<re, im>> of such fractions.  numpy's         *)
(* floating point is modelled by this exact arithmetic; the one irrational *)
(* operation, the square root, is exact on squares of fractions and is     *)
(* otherwise rounded down to a multiple of 1/SqrtDen.                      *)
(* Arrays are 1-based sequences of sequences, indexed in the order of the  *)
(* numpy axes.                                                             *)
(***************************************************************************)
EXTENDS Integers, Sequences, FiniteSets, TLC

VARIABLES
    pc,       \* auxiva: position in the function body
    X,        \* auxiva: the argument X, N x T x F
    epochs,   \* auxiva: the argument epochs
    ep,       \* auxiva: iterations of the outer loop completed
    f,        \* auxiva: bin of the next column update
    n,        \* auxiva: source of the next column update
    W,        \* auxiva: the demixing matrices, F x N x N
    Y,        \* auxiva: the separated output, F x T x N
    Gr,       \* auxiva: the weights of the current iteration, N x T
    ret,      \* auxiva: the returned array, or NoValue
    Wprev,    \* history: W as it was when the current iteration began
    written,  \* history: the <<f, n>> columns written in the current iteration
    req,      \* ssl / spatial features: the arguments of the call
    res       \* ssl / spatial features: what the call returned or raised

vars == <<pc, X, epochs, ep, f, n, W, Y, Gr, ret, Wprev, written, req, res>>

auxVars == <<pc, X, epochs, ep, f, n, W, Y, Gr, ret, Wprev, written>>

callVars == <<req, res>>

\* ---------------------------------------------------------------- bounds

\* Largest value of the epochs argument that is explored.
MaxEpochs == 2

\* Largest number of non-zero time-frequency cells of an explored mixture.
MaxNonzero == 4

\* The square root of a non-square is rounded down to a multiple of 1/SqrtDen.
SqrtDen == 2

\* An iteration is explored only while every numerator and denominator of W
\* is at most IntCap, which keeps the exact arithmetic inside TLC's integers.
IntCap == 8

\* An array that does not exist (yet): nothing returned, nothing computed.
NoValue == <<>>

\* ------------------------------------------------------ exact arithmetic

Abs(x) == IF x < 0 THEN -x ELSE x

RECURSIVE Gcd(_, _)
Gcd(a, b) == IF b = 0 THEN a ELSE Gcd(b, a % b)

\* The reduced fraction n / d, d # 0.
QNorm(num, den) ==
    LET g == Gcd(Abs(num), Abs(den))
        s == IF den < 0 THEN -1 ELSE 1
    IN  <<s * (num \div g), s * (den \div g)>>

Q0 == <<0, 1>>
Q1 == <<1, 1>>
QInt(k) == <<k, 1>>

QNeg(a) == <<-a[1], a[2]>>

QAdd(a, b) ==
    LET g == Gcd(a[2], b[2])
    IN  QNorm(a[1] * (b[2] \div g) + b[1] * (a[2] \div g), (a[2] \div g) * b[2])

QSub(a, b) == QAdd(a, QNeg(b))

QMul(a, b) ==
    LET g1 == Gcd(Abs(a[1]), b[2])
        g2 == Gcd(Abs(b[1]), a[2])
    IN  QNorm((a[1] \div g1) * (b[1] \div g2), (a[2] \div g2) * (b[2] \div g1))

\* 1 / a for a # 0.
QInv(a) == IF a[1] < 0 THEN <<-a[2], -a[1]>> ELSE <<a[2], a[1]>>

QDiv(a, b) == QMul(a, QInv(b))

QLess(a, b) == QSub(a, b)[1] < 0

QMax(a, b) == IF QLess(a, b) THEN b ELSE a

RECURSIVE QSum(_)
QSum(s) == IF s = <<>> THEN Q0 ELSE QAdd(Head(s), QSum(Tail(s)))

\* The largest k with k * k <= m, m >= 0.
RECURSIVE ISqrtFrom(_, _)
ISqrtFrom(m, k) == IF (k + 1) * (k + 1) > m THEN k ELSE ISqrtFrom(m, k + 1)

ISqrt(m) == ISqrtFrom(m, 0)

IsSquare(m) == ISqrt(m) * ISqrt(m) = m

\* np.sqrt of a fraction a >= 0.
QSqrt(a) ==
    IF IsSquare(a[1]) /\ IsSquare(a[2])
    THEN <<ISqrt(a[1]), ISqrt(a[2])>>
    ELSE QNorm(ISqrt((a[1] * SqrtDen * SqrtDen) \div a[2]), SqrtDen)

C0 == <<Q0, Q0>>
C1 == <<Q1, Q0>>
Ci == <<Q0, Q1>>

CReal(a) == <<a, Q0>>

CAdd(x, y) == <<QAdd(x[1], y[1]), QAdd(x[2], y[2])>>

CSub(x, y) == <<QSub(x[1], y[1]), QSub(x[2], y[2])>>

CMul(x, y) ==
    <<QSub(QMul(x[1], y[1]), QMul(x[2], y[2])),
      QAdd(QMul(x[1], y[2]), QMul(x[2], y[1]))>>

CConj(x) == <<x[1], QNeg(x[2])>>

\* |x|^2
CAbsSq(x) == QAdd(QMul(x[1], x[1]), QMul(x[2], x[2]))

\* The complex float nan+nanj, the result of a complex division by zero.
CNaN == <<<<0, 0>>, <<0, 0>>>>

\* x / y as numpy computes it: no error for y = 0, but a non-finite value.
CDiv(x, y) ==
    IF y = C0
    THEN CNaN
    ELSE LET d  == CAbsSq(y)
             nm == CMul(x, CConj(y))
         IN  <<QDiv(nm[1], d), QDiv(nm[2], d)>>

CScale(a, x) == <<QMul(a, x[1]), QMul(a, x[2])>>

RECURSIVE CSum(_)
CSum(s) == IF s = <<>> THEN C0 ELSE CAdd(Head(s), CSum(Tail(s)))


\* --------------------------------------------------- arrays and matrices

\* The array with the k elements s[1], ..., s[k], each computed once.
Arr(k, s) == SubSeq(s, 1, k)

\* a.transpose([2, 1, 0]) of a 3-axis array.
Transpose210(a) ==
    LET d1 == Len(a)
        d2 == Len(a[1])
        d3 == Len(a[1][1])
    IN  Arr(d3, [k \in 1..d3 |->
            Arr(d2, [t \in 1..d2 |-> Arr(d1, [c \in 1..d1 |-> a[c][t][k]])])])

\* np.eye(size), complex.
Eye(size) ==
    Arr(size, [r \in 1..size |->
        Arr(size, [c \in 1..size |-> IF r = c THEN C1 ELSE C0])])

\* Column c of the matrix m.
Col(m, c) == Arr(Len(m), [r \in 1..Len(m) |-> m[r][c]])

\* m with column c replaced by the vector b.
SetCol(m, c, b) ==
    Arr(Len(m), [r \in 1..Len(m) |->
        Arr(Len(m[r]), [k \in 1..Len(m[r]) |-> IF k = c THEN b[r] ELSE m[r][k]])])

\* m without row 1 and column c.
Minor(m, c) ==
    LET size == Len(m) - 1
    IN  Arr(size, [r \in 1..size |->
            Arr(size, [k \in 1..size |-> m[r + 1][IF k < c THEN k ELSE k + 1]])])

\* The determinant, expanded along the first row.
RECURSIVE Det(_)
Det(m) ==
    IF Len(m) = 1
    THEN m[1][1]
    ELSE CSum(Arr(Len(m), [c \in 1..Len(m) |->
                  LET term == CMul(m[1][c], Det(Minor(m, c)))
                  IN  IF c % 2 = 1 THEN term ELSE CSub(C0, term)]))

\* The matrix product a @ b.
MatMul(a, b) ==
    LET rows  == Len(a)
        inner == Len(b)
        cols  == Len(b[1])
    IN  Arr(rows, [r \in 1..rows |->
            Arr(cols, [c \in 1..cols |->
                CSum(Arr(inner, [k \in 1..inner |-> CMul(a[r][k], b[k][c])]))])])

\* The matrix-vector product m @ v.
MatVec(m, v) ==
    LET rows == Len(m)
        size == Len(v)
    IN  Arr(rows, [r \in 1..rows |->
            CSum(Arr(size, [k \in 1..size |-> CMul(m[r][k], v[k])]))])

\* np.conj(m.T)
ConjT(m) ==
    LET rows == Len(m[1])
        cols == Len(m)
    IN  Arr(rows, [r \in 1..rows |-> Arr(cols, [c \in 1..cols |-> CConj(m[c][r])])])

\* np.inner(np.conj(w), v): the sum of conj(w[k]) * v[k].
InnerConj(w, v) ==
    CSum(Arr(Len(w), [k \in 1..Len(w) |-> CMul(CConj(w[k]), v[k])]))

LinAlgError == "LinAlgError: Singular matrix"

\* A mutant of Solve: a singular system yields the right-hand side (a default
\* column) instead of an error.
SolveWithFallback(m, b) ==
    IF Det(m) = C0
    THEN [err |-> "", w |-> b]
    ELSE [err |-> "",
          w |-> LET d == Det(m)
                IN  Arr(Len(m), [c \in 1..Len(m) |->
                        CDiv(Det(SetCol(m, c, b)), d)])]

\* np.linalg.solve(m, b): the solution w of m w = b, or the error numpy raises
\* for a singular m.
Solve(m, b) ==
    IF Det(m) = C0
    THEN [err |-> LinAlgError, w |-> NoValue]
    ELSE [err |-> "",
          w |-> LET d == Det(m)
                IN  Arr(Len(m), [c \in 1..Len(m) |->
                        CDiv(Det(SetCol(m, c, b)), d)])]

\* ------------------------------------------------------------- auxiva

\* The stabilizer EPSILON of libs.utils, a small positive number.
EPSILON == <<1, 2>>

\* The non-finite float inf, the result of a division by zero.
Inf == <<1, 0>>

Finite(a) == a[2] # 0

\* 1 / a as numpy computes it: inf for a = 0.
Reciprocal(a) == IF a[1] = 0 THEN Inf ELSE QInv(a)

\* W after line 35: one identity matrix per bin.
InitW(numBins, numCh) == Arr(numBins, [g \in 1..numBins |-> Eye(numCh)])

\* np.einsum("...tn,...nx->...tx", xt, np.conj(w)), xt and the result F x T x N.
Demix(xt, w) ==
    LET d1 == Len(xt)
        d2 == Len(xt[1])
        d3 == Len(w[1])
    IN  Arr(d1, [g \in 1..d1 |->
            Arr(d2, [t \in 1..d2 |->
                Arr(d3, [c \in 1..d3 |->
                    CSum(Arr(d3, [k \in 1..d3 |->
                        CMul(xt[g][t][k], CConj(w[g][k][c]))]))])])])

\* R of line 42, T x N: the energy envelope of each source over the bins.
Envelope(y) ==
    LET d1 == Len(y)
        d2 == Len(y[1])
        d3 == Len(y[1][1])
    IN  Arr(d2, [t \in 1..d2 |->
            Arr(d3, [c \in 1..d3 |->
                QSqrt(QSum(Arr(d1, [g \in 1..d1 |-> CAbsSq(y[g][t][c])])))])])

\* A mutant of Weights: the stabilizer is left out.
WeightsNoEpsilon(y) ==
    LET r == Envelope(y)
        d1 == Len(r[1])
        d2 == Len(r)
    IN  Arr(d1, [c \in 1..d1 |-> Arr(d2, [t \in 1..d2 |-> Reciprocal(r[t][c])])])

\* Gr of line 44, N x T.
Weights(y) ==
    LET r == Envelope(y)
        d1 == Len(r[1])
        d2 == Len(r)
    IN  Arr(d1, [c \in 1..d1 |->
            Arr(d2, [t \in 1..d2 |-> Reciprocal(QAdd(r[t][c], EPSILON))])])

\* V of lines 48-49 for bin xf (T x N) and the weights gn (length T) of one source.
Covariance(gn, xf) ==
    LET size == Len(xf[1])
        len  == Len(xf)
    IN  Arr(size, [a \in 1..size |->
            Arr(size, [b \in 1..size |->
                CScale(<<1, len>>,
                       CSum(Arr(len, [t \in 1..len |->
                           CScale(gn[t], CMul(xf[t][a], CConj(xf[t][b])))])))])])

\* A mutant of DemixForSolve: the matrix as it was when the iteration began
\* (a batched update).
DemixAtIterationStart(wnow, wstart, g) == wstart[g]

\* The demixing matrix line 51 reads for bin g: the one being updated in place.
DemixForSolve(wnow, wstart, g) == wnow[g]

\* The matrix np.conj(W[f].T) @ V of line 51.
System(wf, v) == MatMul(ConjT(wf), v)

\* The column stored by line 52: w / np.inner(np.conj(w), V @ w).
Rescale(w, v) ==
    LET d == InnerConj(w, MatVec(v, w))
    IN  Arr(Len(w), [k \in 1..Len(w) |-> CDiv(w[k], d)])

\* A mutant of Output: the array is returned in its F x T x N layout.
OutputNotTransposed(y) == y

\* Lines 56-57: the output in channel-major layout, N x T x F.
Output(y) == Transpose210(y)

NumCh == Len(X)
NumFrames == Len(X[1])
NumBins == Len(X[1][1])

\* X after line 33, F x T x N.
Xt == Transpose210(X)

\* The weighted covariance, the system and the solution of the update of
\* column n of bin f in the current state.
CurV == Covariance(Gr[n], Xt[f])
CurSystem == System(DemixForSolve(W, Wprev, f), CurV)
CurSolution == Solve(CurSystem, Eye(NumCh)[n])

\* Every integer in the demixing matrices is at most IntCap in size.
Representable(w) ==
    \A g \in 1..Len(w) : \A r \in 1..Len(w[g]) : \A c \in 1..Len(w[g][r]) :
        \A p \in 1..2 : \A q \in 1..2 : Abs(w[g][r][c][p][q]) <= IntCap

Chans == 1..2
Frames == 1..2
BinCounts == {1, 2}
NonzeroVals == {C1, Ci}
EpochChoices == 0..MaxEpochs

Cells(numBins) == Chans \X Frames \X (1..numBins)

\* The mixtures with numBins bins and at most MaxNonzero non-zero cells.
Mixtures(numBins) ==
    UNION {{[c \in Chans |-> [t \in Frames |-> [g \in 1..numBins |->
                IF <<c, t, g>> \in S THEN v[<<c, t, g>>] ELSE C0]]] :
              v \in [S -> NonzeroVals]} :
           S \in {S0 \in SUBSET Cells(numBins) : Cardinality(S0) <= MaxNonzero}}

\* No call was made yet.
Init ==
    /\ pc = "idle"
    /\ X = NoValue /\ epochs = 0 /\ ep = 0 /\ f = 0 /\ n = 0
    /\ W = NoValue /\ Y = NoValue /\ Gr = NoValue /\ ret = NoValue
    /\ Wprev = NoValue /\ written = {}
    /\ req = [fn |-> "none"] /\ res = [err |-> ""]

\* Lines 31-38: the call, up to the first separated output.
Enter ==
    /\ pc = "idle" /\ req.fn = "none"
    /\ \E numBins \in BinCounts : \E x \in Mixtures(numBins) : \E e \in EpochChoices :
        /\ X' = x
        /\ epochs' = e
        /\ W' = InitW(numBins, Len(x))
        /\ Y' = Demix(Transpose210(x), InitW(numBins, Len(x)))
    /\ ep' = 0
    /\ pc' = "loop"
    /\ UNCHANGED <<f, n, Gr, ret, Wprev, written, callVars>>

\* Lines 40-44: one more iteration begins with its weights.
BeginIteration ==
    /\ pc = "loop"
    /\ ep < epochs
    /\ Representable(W)
    /\ Gr' = Weights(Y)
    /\ f' = 1 /\ n' = 1
    /\ Wprev' = W /\ written' = {}
    /\ pc' = "update"
    /\ UNCHANGED <<X, epochs, ep, W, Y, ret, callVars>>

\* Lines 46-52: the update of column n of bin f, and the step of the two
\* inner loops.
UpdateColumn ==
    /\ pc = "update"
    /\ LET v   == CurV
           sol == Solve(System(DemixForSolve(W, Wprev, f), v), Eye(NumCh)[n])
       IN  /\ sol.err = ""
           /\ W' = [W EXCEPT ![f] = SetCol(W[f], n, Rescale(sol.w, v))]
    /\ written' = written \cup {<<f, n>>}
    /\ IF n < NumCh
       THEN n' = n + 1 /\ f' = f /\ pc' = "update"
       ELSE IF f < NumBins
            THEN n' = 1 /\ f' = f + 1 /\ pc' = "update"
            ELSE n' = n /\ f' = f /\ pc' = "recompute"
    /\ UNCHANGED <<X, epochs, ep, Y, Gr, ret, Wprev, callVars>>

\* Line 51: np.linalg.solve raises, and nothing in auxiva catches it.
SolveRaises ==
    /\ pc = "update"
    /\ CurSolution.err = LinAlgError
    /\ pc' = "raised"
    /\ UNCHANGED <<X, epochs, ep, f, n, W, Y, Gr, ret, Wprev, written, callVars>>

\* Line 54: the separated output of the iteration.
Recompute ==
    /\ pc = "recompute"
    /\ Y' = Demix(Xt, W)
    /\ ep' = ep + 1
    /\ pc' = "loop"
    /\ UNCHANGED <<X, epochs, f, n, W, Gr, ret, Wprev, written, callVars>>

\* Lines 56-57: the loop is over.
Return ==
    /\ pc = "loop"
    /\ ep >= epochs
    /\ ret' = Output(Y)
    /\ pc' = "returned"
    /\ UNCHANGED <<X, epochs, ep, f, n, W, Y, Gr, Wprev, written, callVars>>

AuxNext ==
    \/ Enter
    \/ BeginIteration
    \/ UpdateColumn
    \/ SolveRaises
    \/ Recompute
    \/ Return

SpecAuxiva == Init /\ [][AuxNext]_vars


\* ------------------------------------------------------------ libs/ssl

\* Largest number of frequency bins of an explored steering-vector bank.
MaxBankBins == 3

\* Largest compression exponent explored.
MaxCompression == 2

UnpackError == "ValueError: not enough values to unpack (expected 3)"
BroadcastError == "ValueError: operands could not be broadcast together"
SrpPairError == "ValueError: srp_pair cannot be None, (list, list)"
IndexError == "IndexError: index is out of bounds for axis"

\* numpy's broadcasting of two axis lengths (einsum broadcasts a label the
\* same way): equal, or one of them 1.
Compatible(d1, d2) == d1 = d2 \/ d1 = 1 \/ d2 = 1
BDim(d1, d2) == IF d1 = 1 THEN d2 ELSE d1
\* The index into an axis of length d of element i of the broadcast axis.
At(i, d) == IF d = 1 THEN 1 ELSE i

\* |z| of libs.utils.cmat_abs and of np.abs.
CAbs(z) == QSqrt(CAbsSq(z))

\* a ** k for an integer k >= 0.
RECURSIVE QPow(_, _)
QPow(a, k) == IF k = 0 THEN Q1 ELSE QMul(a, QPow(a, k - 1))

RECURSIVE QProd(_)
QProd(s) == IF s = <<>> THEN Q1 ELSE QMul(Head(s), QProd(Tail(s)))

\* All the elements of a sequence of sequences, in order.
RECURSIVE Flatten(_)
Flatten(s) == IF s = <<>> THEN <<>> ELSE Head(s) \o Flatten(Tail(s))

\* np.argmax of a sequence of fractions: the first index (from 0) of the maximum.
RECURSIVE ArgMaxFrom(_, _, _)
ArgMaxFrom(s, k, best) ==
    IF k > Len(s) THEN best - 1
    ELSE ArgMaxFrom(s, k + 1, IF QLess(s[best], s[k]) THEN k ELSE best)

ArgMax(s) == ArgMaxFrom(s, 2, 1)

\* np.argmin: the first index (from 0) of the minimum.
RECURSIVE ArgMinFrom(_, _, _)
ArgMinFrom(s, k, best) ==
    IF k > Len(s) THEN best - 1
    ELSE ArgMinFrom(s, k + 1, IF QLess(s[k], s[best]) THEN k ELSE best)

ArgMin(s) == ArgMinFrom(s, 2, 1)

\* np.ones([numT, numF]), the default mask.
OnesMask(numT, numF) ==
    [ndim |-> 2,
     a |-> Arr(numT, [t \in 1..numT |-> Arr(numF, [g \in 1..numF |-> Q1])])]

\* A mutant of EffectiveMask: the default mask is zero in every cell.
EffectiveMaskZeroDefault(mask, numT, numF) ==
    IF mask.ndim = 0
    THEN [ndim |-> 2,
          a |-> Arr(numT, [t \in 1..numT |-> Arr(numF, [g \in 1..numF |-> Q0])])]
    ELSE mask

\* The mask a call works with: the default when mask is None.
EffectiveMask(mask, numT, numF) == IF mask.ndim = 0 THEN OnesMask(numT, numF) ELSE mask

\* A mutant of SvNormSq: the steering vectors are taken as they are.
SvNormSqOne(sv) ==
    Arr(Len(sv), [a \in 1..Len(sv) |->
        Arr(Len(sv[1][1]), [g \in 1..Len(sv[1][1]) |-> Q1])])

\* np.linalg.norm(sv, axis=1, keepdims=True) ** 2 of line 27, A x F.  The
\* normalized vector sv / norm enters only through |sv_n . conj(stft)| ** 2,
\* which is |sv . conj(stft)| ** 2 divided by this squared norm.
SvNormSq(sv) ==
    Arr(Len(sv), [a \in 1..Len(sv) |->
        Arr(Len(sv[1][1]), [g \in 1..Len(sv[1][1]) |->
            QSum(Arr(Len(sv[a]), [c \in 1..Len(sv[a]) |-> CAbsSq(sv[a][c][g])]))])])

\* Lines 28-29: stft / np.maximum(cmat_abs(stft), eps) when norm is set.
NormalizeStft(x, eps, norm) ==
    IF ~norm THEN x
    ELSE Arr(Len(x), [c \in 1..Len(x) |->
            Arr(Len(x[c]), [t \in 1..Len(x[c]) |->
                Arr(Len(x[c][t]), [g \in 1..Len(x[c][t]) |->
                    CScale(QInv(QMax(CAbs(x[c][t][g]), eps)), x[c][t][g])])])])

\* ssh_cor of line 30, T x F.
SelfCoherence(x) ==
    Arr(Len(x[1]), [t \in 1..Len(x[1]) |->
        Arr(Len(x[1][1]), [g \in 1..Len(x[1][1]) |->
            CAbs(CSum(Arr(Len(x), [c \in 1..Len(x) |->
                CMul(x[c][t][g], CConj(x[c][t][g]))])))])])

\* ssv_cor of line 31, A x T x F, for the bank sv with squared norms nsq.
SteeredCorrelation(sv, nsq, x) ==
    LET numM == BDim(Len(sv[1]), Len(x))
        numF == BDim(Len(sv[1][1]), Len(x[1][1]))
    IN  Arr(Len(sv), [a \in 1..Len(sv) |->
            Arr(Len(x[1]), [t \in 1..Len(x[1]) |->
                Arr(numF, [g \in 1..numF |->
                    QDiv(CAbsSq(CSum(Arr(numM, [c \in 1..numM |->
                             CMul(sv[a][At(c, Len(sv[1]))][At(g, Len(sv[1][1]))],
                                  CConj(x[At(c, Len(x))][t][At(g, Len(x[1][1]))]))]))),
                         nsq[a][At(g, Len(sv[1][1]))])])])])

\* delta of line 33, A x T x F.
Delta(ssh, ssv, eps) ==
    LET numF == BDim(Len(ssh[1]), Len(ssv[1][1]))
    IN  Arr(Len(ssv), [a \in 1..Len(ssv) |->
            Arr(Len(ssv[a]), [t \in 1..Len(ssv[a]) |->
                Arr(numF, [g \in 1..numF |->
                    QSub(ssh[t][At(g, Len(ssh[1]))],
                         QDiv(ssv[a][t][At(g, Len(ssv[1][1]))], QAdd(Q1, eps)))])])])

\* tf_loglike of lines 34-37, A x T x F.  With the log, a cell holds
\* v = max(delta, eps) and stands for -log(v); with a compression exponent it
\* holds the value -delta ** compression.
TfLoglike(delta, compression, eps) ==
    Arr(Len(delta), [a \in 1..Len(delta) |->
        Arr(Len(delta[a]), [t \in 1..Len(delta[a]) |->
            Arr(Len(delta[a][t]), [g \in 1..Len(delta[a][t]) |->
                IF compression <= 0
                THEN QMax(delta[a][t][g], eps)
                ELSE QNeg(QPow(delta[a][t][g], compression))])])])

\* A mutant of MaskedCells: the mask is not applied.
UnmaskedCells(m2, tfa, logMode) ==
    LET numT == BDim(Len(m2), Len(tfa))
        numF == BDim(Len(m2[1]), Len(tfa[1]))
    IN  Flatten(Arr(numT, [t \in 1..numT |->
            Arr(numF, [g \in 1..numF |-> tfa[At(t, Len(tfa))][At(g, Len(tfa[1]))]])]))

\* The cells mask * tf_loglike of one direction (lines 39-42), flattened.  A
\* cell that stands for -log(v) weighted by the mask value k is the cell
\* -log(v ** k); mask values are whole numbers there.
MaskedCells(m2, tfa, logMode) ==
    LET numT == BDim(Len(m2), Len(tfa))
        numF == BDim(Len(m2[1]), Len(tfa[1]))
    IN  Flatten(Arr(numT, [t \in 1..numT |->
            Arr(numF, [g \in 1..numF |->
                LET k == m2[At(t, Len(m2))][At(g, Len(m2[1]))]
                    v == tfa[At(t, Len(tfa))][At(g, Len(tfa[1]))]
                IN  IF logMode THEN QPow(v, k[1]) ELSE QMul(k, v)])]))

\* The sum of the masked cells of one direction: with the log, the product p
\* of the cells, which stands for the score -log(p).
MaskedScore(m2, tfa, logMode) ==
    IF logMode THEN QProd(MaskedCells(m2, tfa, logMode))
    ELSE QSum(MaskedCells(m2, tfa, logMode))

\* np.argmax of the scores of the directions: with the log the score is
\* -log(p), largest where p is smallest.
BestDirection(scores, logMode) == IF logMode THEN ArgMin(scores) ELSE ArgMax(scores)

\* ml_ssl, lines 23-43.
MlSsl(stft, sv, compression, eps, norm, mask) ==
    IF stft.ndim # 3 THEN [err |-> UnpackError, index |-> <<>>, scores |-> <<>>]
    ELSE
    LET numT == Len(stft.a[1])
        numF == Len(stft.a[1][1])
        mk   == EffectiveMask(mask, numT, numF)
        bF   == BDim(Len(sv[1][1]), numF)
        m3   == IF mk.ndim = 2 THEN <<mk.a>> ELSE mk.a
    IN  IF ~(Compatible(Len(sv[1]), Len(stft.a)) /\ Compatible(Len(sv[1][1]), numF))
        THEN [err |-> BroadcastError, index |-> <<>>, scores |-> <<>>]
        ELSE IF ~(Compatible(Len(m3[1]), numT) /\ Compatible(Len(m3[1][1]), bF))
        THEN [err |-> BroadcastError, index |-> <<>>, scores |-> <<>>]
        ELSE
        LET x      == NormalizeStft(stft.a, eps, norm)
            tf     == TfLoglike(Delta(SelfCoherence(x),
                                      SteeredCorrelation(sv, SvNormSq(sv), x), eps),
                                compression, eps)
            logMode == compression <= 0
            scores == Arr(Len(m3), [k \in 1..Len(m3) |->
                          Arr(Len(tf), [a \in 1..Len(tf) |->
                              MaskedScore(m3[k], tf[a], logMode)])])
        IN  [err |-> "",
             index |-> Arr(Len(m3), [k \in 1..Len(m3) |->
                           BestDirection(scores[k], logMode)]),
             scores |-> scores]

\* np.angle of a value on the real or the imaginary axis, in quarter turns
\* within (-2, 2]; np.angle(0) is 0.
Angle(z) ==
    CASE z[2][1] = 0 /\ z[1][1] >= 0 -> 0
      [] z[2][1] = 0 /\ z[1][1] < 0  -> 2
      [] z[1][1] = 0 /\ z[2][1] > 0  -> 1
      [] z[1][1] = 0 /\ z[2][1] < 0  -> -1

\* np.cos and np.sin of a whole number of quarter turns.
CosQ(k) == QInt(<<1, 0, -1, 0>>[(k % 4) + 1])
SinQ(k) == QInt(<<0, 1, 0, -1>>[(k % 4) + 1])

\* Python's indexing of an axis of length size by i: negative indices count
\* from the end.
ValidIndex(i, size) == -size <= i /\ i < size
PyIndex(i, size) == IF i < 0 THEN i + size + 1 ELSE i + 1

NoResult(e, done) == [err |-> e, index |-> <<>>, scores |-> <<>>, steps |-> done]

\* Lines 64-76 of srp_ssl: the scores of the directions.
SrpScores(x, sv, il, ir, m2) ==
    LET numM == Len(x)
        numT == Len(x[1])
        numF == Len(x[1][1])
        svM  == Len(sv[1])
        svF  == Len(sv[1][1])
        numP == BDim(Len(il), Len(ir))
        bF   == BDim(numF, svF)
        obs_ipd == Arr(numP, [q \in 1..numP |->
                     Arr(numT, [t \in 1..numT |->
                       Arr(numF, [g \in 1..numF |->
                         Angle(x[PyIndex(il[At(q, Len(il))], numM)][t][g])
                         - Angle(x[PyIndex(ir[At(q, Len(ir))], numM)][t][g])])])])
        ora_ipd == Arr(Len(sv), [a \in 1..Len(sv) |->
                     Arr(numP, [q \in 1..numP |->
                       Arr(svF, [g \in 1..svF |->
                         Angle(sv[a][PyIndex(il[At(q, Len(il))], svM)][g])
                         - Angle(sv[a][PyIndex(ir[At(q, Len(ir))], svM)][g])])])])
        af == Arr(Len(sv), [a \in 1..Len(sv) |->
                Arr(numT, [t \in 1..numT |->
                  Arr(bF, [g \in 1..bF |->
                    QDiv(QSum(Arr(numP, [q \in 1..numP |->
                             CosQ(obs_ipd[q][t][At(g, numF)]
                                  - ora_ipd[a][q][At(g, svF)])])),
                         QInt(numP))])])])
    IN  Arr(Len(sv), [a \in 1..Len(sv) |->
            QSum(MaskedCells(m2, af[a], FALSE))])

\* A mutant of SrpSsl: the shapes are read before srp_pair is looked at.
SrpSslShapeFirst(stft, sv, srp_pair, mask) ==
    IF stft.ndim # 3 THEN NoResult(UnpackError, <<>>)
    ELSE IF ~srp_pair.given THEN NoResult(SrpPairError, <<"shape">>)
    ELSE NoResult("", <<"shape">>)

\* srp_ssl, lines 57-77.  steps lists the statements completed, after the
\* srp_pair test, when the call returned or raised.
SrpSsl(stft, sv, srp_pair, mask) ==
    IF ~srp_pair.given THEN NoResult(SrpPairError, <<>>)
    ELSE IF stft.ndim # 3 THEN NoResult(UnpackError, <<>>)
    ELSE
    LET numM == Len(stft.a)
        numT == Len(stft.a[1])
        numF == Len(stft.a[1][1])
        mk   == EffectiveMask(mask, numT, numF)
        il   == srp_pair.l
        ir   == srp_pair.r
        bF   == BDim(numF, Len(sv[1][1]))
    IN  IF \E q \in 1..Len(il) : ~ValidIndex(il[q], numM)
        THEN NoResult(IndexError, <<"shape", "mask", "phase">>)
        ELSE IF \E q \in 1..Len(ir) : ~ValidIndex(ir[q], numM)
        THEN NoResult(IndexError, <<"shape", "mask", "phase">>)
        ELSE IF ~Compatible(Len(il), Len(ir))
        THEN NoResult(BroadcastError, <<"shape", "mask", "phase">>)
        ELSE IF \E q \in 1..Len(il) : ~ValidIndex(il[q], Len(sv[1]))
        THEN NoResult(IndexError, <<"shape", "mask", "phase", "obs_ipd">>)
        ELSE IF \E q \in 1..Len(ir) : ~ValidIndex(ir[q], Len(sv[1]))
        THEN NoResult(IndexError, <<"shape", "mask", "phase", "obs_ipd">>)
        ELSE IF ~Compatible(numF, Len(sv[1][1]))
        THEN NoResult(BroadcastError, <<"shape", "mask", "phase", "obs_ipd", "ora_ipd">>)
        ELSE IF ~(Compatible(Len(mk.a), numT) /\ Compatible(Len(mk.a[1]), bF))
        THEN NoResult(BroadcastError,
                      <<"shape", "mask", "phase", "obs_ipd", "ora_ipd", "af">>)
        ELSE
        LET scores == SrpScores(stft.a, sv, il, ir, mk.a)
        IN  [err |-> "", index |-> <<ArgMax(scores)>>, scores |-> <<scores>>,
             steps |-> <<"shape", "mask", "phase", "obs_ipd", "ora_ipd", "af", "srp">>]

\* Lines 94-96 of music_ssl: the covariance of bin g of the masked
\* observation, M x M.
MusicCovar(x, m2, g) ==
    LET numT == Len(x[1])
        obs(c, t) == CScale(m2[At(t, Len(m2))][At(g, Len(m2[1]))], x[c][t][g])
    IN  Arr(Len(x), [c \in 1..Len(x) |->
            Arr(Len(x), [b \in 1..Len(x) |->
                CScale(QInv(QInt(numT)),
                       CSum(Arr(numT, [t \in 1..numT |->
                            CMul(obs(c, t), CConj(obs(b, t)))])))])])

\* A mutant of NoiseCovar: the projector on the eigenvector of the largest
\* eigenvalue, (cv - lmin I) / (lmax - lmin).
SignalCovar(cv, pick) ==
    LET half == QDiv(QSub(cv[1][1][1], cv[2][2][1]), QInt(2))
        s    == QSqrt(QAdd(QMul(half, half), CAbsSq(cv[1][2])))
        lmin == QSub(QDiv(QAdd(cv[1][1][1], cv[2][2][1]), QInt(2)), s)
        e    == Eye(2)
    IN  IF s = Q0
        THEN Arr(2, [c \in 1..2 |-> Arr(2, [b \in 1..2 |->
                 IF c = b /\ c = pick THEN C1 ELSE C0])])
        ELSE Arr(2, [c \in 1..2 |-> Arr(2, [b \in 1..2 |->
                 CScale(QInv(QMul(QInt(2), s)),
                        CSub(cv[c][b], CScale(lmin, e[c][b])))])])

\* Lines 98-102: noise_covar, the projector on the eigenvectors of all but
\* the largest eigenvalue of a 2 x 2 Hermitian matrix cv.  With eigenvalues
\* lmax > lmin it is (lmax I - cv) / (lmax - lmin).  With equal eigenvalues
\* every orthonormal basis is a result of eigh: pick names the basis vector
\* that is dropped.
NoiseCovar(cv, pick) ==
    LET half == QDiv(QSub(cv[1][1][1], cv[2][2][1]), QInt(2))
        s    == QSqrt(QAdd(QMul(half, half), CAbsSq(cv[1][2])))
        lmax == QAdd(QDiv(QAdd(cv[1][1][1], cv[2][2][1]), QInt(2)), s)
        e    == Eye(2)
    IN  IF s = Q0
        THEN Arr(2, [c \in 1..2 |-> Arr(2, [b \in 1..2 |->
                 IF c = b /\ c # pick THEN C1 ELSE C0])])
        ELSE Arr(2, [c \in 1..2 |-> Arr(2, [b \in 1..2 |->
                 CScale(QInv(QMul(QInt(2), s)),
                        CSub(CScale(lmax, e[c][b]), cv[c][b]))])])

\* Line 104: the steering vector of direction a in bin g.
SvAt(sv, a, g) == Arr(Len(sv[a]), [c \in 1..Len(sv[a]) |-> sv[a][c][g]])

\* music_ssl, lines 90-110.
MusicSsl(stft, sv, mask, pick) ==
    IF stft.ndim # 3 THEN [err |-> UnpackError, index |-> <<>>, scores |-> <<>>]
    ELSE
    LET numM == Len(stft.a)
        numT == Len(stft.a[1])
        numF == Len(stft.a[1][1])
        svF  == Len(sv[1][1])
        mk   == EffectiveMask(mask, numT, numF)
        bF   == BDim(numF, svF)
    IN  IF ~(Compatible(Len(mk.a), numT) /\ Compatible(Len(mk.a[1]), numF))
        THEN [err |-> BroadcastError, index |-> <<>>, scores |-> <<>>]
        ELSE IF ~(Compatible(numF, svF) /\ Compatible(numM, Len(sv[1])))
        THEN [err |-> BroadcastError, index |-> <<>>, scores |-> <<>>]
        ELSE
        LET noise_covar == Arr(numF, [g \in 1..numF |->
                               NoiseCovar(MusicCovar(stft.a, mk.a, g), pick)])
            denorm(a, g) == InnerConj(SvAt(sv, a, At(g, svF)),
                               MatVec(noise_covar[At(g, numF)],
                                      SvAt(sv, a, At(g, svF))))
            score == Arr(Len(sv), [a \in 1..Len(sv) |->
                         QSum(Arr(bF, [g \in 1..bF |-> CAbs(denorm(a, g))]))])
        IN  [err |-> "", index |-> <<ArgMin(score)>>, scores |-> <<score>>]

\* The explored arguments.  Spectrograms have two channels and one or two
\* time-frequency cells; the 2-D array stands for a spectrogram without its
\* channel axis.
StftShapes == {<<1, 1>>, <<2, 1>>, <<1, 2>>}
SslVals == {C1, Ci}

Spectrogram(a) == [ndim |-> 3, a |-> a]

Stfts(sh) ==
    {Spectrogram(Arr(2, [c \in 1..2 |-> Arr(sh[1], [t \in 1..sh[1] |->
         Arr(sh[2], [g \in 1..sh[2] |-> v[<<c, t, g>>]])])])) :
       v \in [(1..2) \X (1..sh[1]) \X (1..sh[2]) -> SslVals]}
    \cup {Spectrogram(Arr(2, [c \in 1..2 |-> Arr(sh[1], [t \in 1..sh[1] |->
              Arr(sh[2], [g \in 1..sh[2] |-> C0])])]))}

MalformedStft == [ndim |-> 2, a |-> <<<<C1, Ci>>>>]

StftArgs == UNION {Stfts(sh) : sh \in StftShapes} \cup {MalformedStft}

\* i ** k
RotPow(k) == <<C1, Ci, CSub(C0, C1), CSub(C0, Ci)>>[(k % 4) + 1]

\* A bank of two directions for two channels and numBins bins: channel c of
\* direction a is delayed by delays[a] * (c - 1) quarter turns per bin and
\* scaled by gains[a].
Bank(numBins, delays, gains) ==
    Arr(2, [a \in 1..2 |-> Arr(2, [c \in 1..2 |->
        Arr(numBins, [g \in 1..numBins |->
            CScale(QInt(gains[a]), RotPow(delays[a] * (c - 1) * g))])])])

DelayPairs == {<<0, 1>>, <<3, 2>>}
GainPairs == {<<1, 1>>, <<1, 2>>}

Banks ==
    {Bank(numBins, d, k) : numBins \in 1..MaxBankBins, d \in DelayPairs, k \in GainPairs}

NoMask == [ndim |-> 0, a |-> <<>>]

\* The T x F mask that is 1 in the cell cell and 0 elsewhere.
CellMask(sh, cell) ==
    [ndim |-> 2,
     a |-> Arr(sh[1], [t \in 1..sh[1] |-> Arr(sh[2], [g \in 1..sh[2] |->
               IF <<t, g>> = cell THEN Q1 ELSE Q0])])]

\* The masks of two sources: the first cell, and every cell.
SourceMasks(sh) ==
    [ndim |-> 3, a |-> <<CellMask(sh, <<1, 1>>).a, OnesMask(sh[1], sh[2]).a>>]

ShapeOf(stft) ==
    IF stft.ndim = 3 THEN <<Len(stft.a[1]), Len(stft.a[1][1])>>
    ELSE <<Len(stft.a), Len(stft.a[1])>>

Masks2(sh) ==
    {NoMask, OnesMask(sh[1], sh[2])}
    \cup {CellMask(sh, cell) : cell \in (1..sh[1]) \X (1..sh[2])}

NoPair == [given |-> FALSE, l |-> <<>>, r |-> <<>>]
SrpPairs == {NoPair,
             [given |-> TRUE, l |-> <<0>>, r |-> <<1>>],
             [given |-> TRUE, l |-> <<0, 1>>, r |-> <<1, -1>>],
             [given |-> TRUE, l |-> <<0>>, r |-> <<2>>]}

\* The value the model gives the keyword eps of ml_ssl.
SslEps == <<1, 4>>

\* A mutant of CallerAfterRebind: the statement stores into the array the
\* name was bound to, as an augmented assignment does.
CallerAfterStore(old, new) == new

\* The array the caller holds after a statement "name = expression" on the
\* parameter name: the expression makes a new array (or a view) and the name
\* is bound to it; the array it was bound to, old, is not written.
CallerAfterRebind(old, new) == old

\* sv / np.linalg.norm(sv, axis=1, keepdims=True) of line 27.
NormalizedBank(sv) ==
    Arr(Len(sv), [a \in 1..Len(sv) |->
        Arr(Len(sv[a]), [c \in 1..Len(sv[a]) |->
            Arr(Len(sv[a][c]), [g \in 1..Len(sv[a][c]) |->
                CScale(QInv(QSqrt(SvNormSq(sv)[a][g])), sv[a][c][g])])])])

\* np.transpose(sv, (2, 0, 1)) of line 104, F x A x M.
TransposedBank(sv) ==
    Arr(Len(sv[1][1]), [g \in 1..Len(sv[1][1]) |->
        Arr(Len(sv), [a \in 1..Len(sv) |-> SvAt(sv, a, g)])])

\* The arrays the caller of ml_ssl holds after the call: lines 25, 27 and 29
\* bind the names mask, sv and stft anew.
MlSslInputsAfter(stft, sv, eps, norm, mask) ==
    IF stft.ndim # 3 THEN [stft |-> stft, sv |-> sv, mask |-> mask]
    ELSE [stft |-> IF norm
                   THEN CallerAfterRebind(stft, Spectrogram(NormalizeStft(stft.a, eps, norm)))
                   ELSE stft,
          sv |-> CallerAfterRebind(sv, NormalizedBank(sv)),
          mask |-> IF mask.ndim = 0
                   THEN CallerAfterRebind(mask, OnesMask(ShapeOf(stft)[1], ShapeOf(stft)[2]))
                   ELSE mask]

\* The arrays the caller of srp_ssl holds after the call: no statement
\* assigns to stft or sv, and line 61 binds mask only when it was None.
SrpSslInputsAfter(stft, sv, srp_pair, mask) ==
    [stft |-> stft, sv |-> sv,
     mask |-> IF srp_pair.given /\ stft.ndim = 3 /\ mask.ndim = 0
              THEN CallerAfterRebind(mask, OnesMask(ShapeOf(stft)[1], ShapeOf(stft)[2]))
              ELSE mask]

\* The arrays the caller of music_ssl holds after the call: line 92 binds
\* mask when it was None, and line 104, when it is reached, binds sv to a
\* transposed view.
MusicSslInputsAfter(stft, sv, mask) ==
    IF stft.ndim # 3 THEN [stft |-> stft, sv |-> sv, mask |-> mask]
    ELSE [stft |-> stft,
          sv |-> IF Compatible(Len(EffectiveMask(mask, ShapeOf(stft)[1], ShapeOf(stft)[2]).a),
                               ShapeOf(stft)[1])
                 THEN CallerAfterRebind(sv, TransposedBank(sv))
                 ELSE sv,
          mask |-> IF mask.ndim = 0
                   THEN CallerAfterRebind(mask, OnesMask(ShapeOf(stft)[1], ShapeOf(stft)[2]))
                   ELSE mask]

\* A call of ml_ssl.
CallMlSsl ==
    /\ pc = "idle" /\ req.fn = "none"
    /\ \E stft \in StftArgs : \E sv \in Banks : \E compression \in 0..MaxCompression :
       \E norm \in BOOLEAN : \E mask \in Masks2(ShapeOf(stft)) \cup {SourceMasks(ShapeOf(stft))} :
        /\ req' = [fn |-> "ml_ssl", stft |-> stft, sv |-> sv, compression |-> compression,
                   eps |-> SslEps, norm |-> norm, mask |-> mask, srp_pair |-> NoPair,
                   pick |-> 1]
        /\ res' = MlSsl(stft, sv, compression, SslEps, norm, mask)
                   @@ [inputs |-> MlSslInputsAfter(stft, sv, SslEps, norm, mask)]
    /\ UNCHANGED auxVars

\* A call of srp_ssl.
CallSrpSsl ==
    /\ pc = "idle" /\ req.fn = "none"
    /\ \E stft \in StftArgs : \E sv \in Banks : \E srp_pair \in SrpPairs :
       \E mask \in Masks2(ShapeOf(stft)) :
        /\ req' = [fn |-> "srp_ssl", stft |-> stft, sv |-> sv, compression |-> 0,
                   eps |-> SslEps, norm |-> FALSE, mask |-> mask, srp_pair |-> srp_pair,
                   pick |-> 1]
        /\ res' = SrpSsl(stft, sv, srp_pair, mask)
                   @@ [inputs |-> SrpSslInputsAfter(stft, sv, srp_pair, mask)]
    /\ UNCHANGED auxVars

\* A call of music_ssl.
CallMusicSsl ==
    /\ pc = "idle" /\ req.fn = "none"
    /\ \E stft \in StftArgs : \E sv \in Banks : \E mask \in Masks2(ShapeOf(stft)) :
       \E pick \in 1..2 :
        /\ req' = [fn |-> "music_ssl", stft |-> stft, sv |-> sv, compression |-> 0,
                   eps |-> SslEps, norm |-> FALSE, mask |-> mask, srp_pair |-> NoPair,
                   pick |-> pick]
        /\ res' = MusicSsl(stft, sv, mask, pick)
                   @@ [inputs |-> MusicSslInputsAfter(stft, sv, mask)]
    /\ UNCHANGED auxVars

SslNext ==
    \/ CallMlSsl
    \/ CallSrpSsl
    \/ CallMusicSsl

SpecSsl == Init /\ [][SslNext]_vars

\* The four engines together: a call of auxiva or of one estimator.
EnginesNext == AuxNext \/ SslNext

SpecEngines == Init /\ [][EnginesNext]_vars

\* ------------------------------------------- compute_ipd_and_linear_srp

\* Largest channel count of an explored spectrogram.
MaxChannels == 3

OneChannelError == "ValueError: Only one-channel STFT available"
IpdPairError == "ValueError: Invalid --ipd.pair configuration detected"
IntLiteralError == "ValueError: invalid literal for int() with base 10"
ChannelError == "RuntimeError: Could not access channel"

\* int() of the tokens explored; any other token is not a literal.
IntTokens == {"-1", "0", "1", "2", "3"}
IntOf(tok) ==
    CASE tok = "-1" -> -1
      [] tok = "0" -> 0
      [] tok = "1" -> 1
      [] tok = "2" -> 2
      [] tok = "3" -> 3

\* libs.spatial.ipd of two T x F channels: the difference of the angles, in
\* quarter turns; with cos its cosine, and with sin the sine appended along
\* the frequency axis.
Ipd(si, sj, cos, sin) ==
    LET numT == Len(si)
        numF == Len(si[1])
        dif(t, g) == Angle(si[t][g]) - Angle(sj[t][g])
    IN  Arr(numT, [t \in 1..numT |->
            IF ~cos THEN Arr(numF, [g \in 1..numF |-> QInt(dif(t, g))])
            ELSE IF ~sin THEN Arr(numF, [g \in 1..numF |-> CosQ(dif(t, g))])
            ELSE Arr(numF, [g \in 1..numF |-> CosQ(dif(t, g))])
                 \o Arr(numF, [g \in 1..numF |-> SinQ(dif(t, g))])])

\* np.hstack of a list of matrices with the same number of rows.
\* A mutant of HStack: every matrix is put in front of the earlier ones.
RECURSIVE HStackReversed(_)
HStackReversed(ms) ==
    IF Len(ms) = 1 THEN ms[1]
    ELSE LET rest == HStackReversed(Tail(ms))
         IN  Arr(Len(ms[1]), [t \in 1..Len(ms[1]) |-> rest[t] \o ms[1][t]])

RECURSIVE HStack(_)
HStack(ms) ==
    IF Len(ms) = 1 THEN ms[1]
    ELSE LET rest == HStack(Tail(ms))
         IN  Arr(Len(ms[1]), [t \in 1..Len(ms[1]) |-> ms[1][t] \o rest[t]])

\* Line 42: the test that raises "Could not access channel".
ChannelGuard(r, numCh) == r > numCh

\* A mutant of PairChannels: the channel of the lower position comes first.
PairChannelsSorted(S0, l, r) ==
    IF PyIndex(l, Len(S0)) <= PyIndex(r, Len(S0))
    THEN <<S0[PyIndex(l, Len(S0))], S0[PyIndex(r, Len(S0))]>>
    ELSE <<S0[PyIndex(r, Len(S0))], S0[PyIndex(l, Len(S0))]>>

\* Line 44: S[L], S[R], the two arguments of ipd in this order.
PairChannels(S0, l, r) == <<S0[PyIndex(l, Len(S0))], S0[PyIndex(r, Len(S0))]>>

\* Lines 36-47: the pairs from pair k on, after the matrices in acc.
RECURSIVE IpdLoop(_, _, _, _, _, _)
IpdLoop(S0, pairs, cos, sin, k, acc) ==
    IF k > Len(pairs)
    THEN [err |-> "", via |-> "ipd", feats |-> HStack(acc)]
    ELSE LET p == pairs[k]
         IN  IF \E j \in 1..Len(p) : p[j] \notin IntTokens
             THEN [err |-> IntLiteralError, via |-> "ipd", feats |-> <<>>]
             ELSE IF Len(p) # 2
             THEN [err |-> IpdPairError, via |-> "ipd", feats |-> <<>>]
             ELSE IF ChannelGuard(IntOf(p[2]), Len(S0))
             THEN [err |-> ChannelError, via |-> "ipd", feats |-> <<>>]
             ELSE IF ~ValidIndex(IntOf(p[1]), Len(S0)) \/ ~ValidIndex(IntOf(p[2]), Len(S0))
             THEN [err |-> IndexError, via |-> "ipd", feats |-> <<>>]
             ELSE IpdLoop(S0, pairs, cos, sin, k + 1,
                          Append(acc, Ipd(PairChannels(S0, IntOf(p[1]), IntOf(p[2]))[1],
                                          PairChannels(S0, IntOf(p[1]), IntOf(p[2]))[2],
                                          cos, sin)))

\* compute_spatial_feats, lines 22-49.  The features of the types srp and
\* msc are those of libs.spatial and are not computed here.
ComputeSpatialFeats(args, S0) ==
    IF args.type = "srp" THEN [err |-> "", via |-> "srp_phat_linear", feats |-> <<>>]
    ELSE IF args.type = "ipd"
    THEN IF S0.ndim < 3
         THEN [err |-> OneChannelError, via |-> "ipd", feats |-> <<>>]
         ELSE IpdLoop(S0.a, args.ipd_pair, args.ipd_cos, args.ipd_sin, 1, <<>>)
    ELSE [err |-> "", via |-> "msc", feats |-> <<>>]

\* The explored spectrograms: numCh channels, two frames, two bins, each
\* value a power of i; with numCh = 0, the T x F array of a single channel.
IpdSpectrogram(numCh, k) ==
    IF numCh = 0
    THEN [ndim |-> 2, a |-> Arr(2, [t \in 1..2 |-> Arr(2, [g \in 1..2 |-> RotPow(k * g + t)])])]
    ELSE Spectrogram(Arr(numCh, [c \in 1..numCh |-> Arr(2, [t \in 1..2 |->
             Arr(2, [g \in 1..2 |-> RotPow(k * c * g + t * (c - 1))])])]))

\* The values of --ipd.pair, split at ";" and at ",".
IpdSegments ==
    (IntTokens \X IntTokens) \cup {<<"0">>, <<"0", "1", "2">>, <<"x", "1">>}
IpdPairLists == {<<p>> : p \in IpdSegments} \cup (IpdSegments \X IpdSegments)

IpdFlags == {<<FALSE, FALSE>>, <<TRUE, FALSE>>, <<TRUE, TRUE>>}

IpdArgs ==
    {[type |-> "ipd", ipd_pair |-> p, ipd_cos |-> fl[1], ipd_sin |-> fl[2]] :
        p \in IpdPairLists, fl \in IpdFlags}
    \cup {[type |-> ty, ipd_pair |-> <<<<"0", "1">>>>, ipd_cos |-> FALSE, ipd_sin |-> FALSE] :
        ty \in {"srp", "msc"}}

\* A call of compute_spatial_feats.
CallComputeSpatialFeats ==
    /\ pc = "idle" /\ req.fn = "none"
    /\ \E args \in IpdArgs : \E numCh \in 0..MaxChannels : \E k \in 1..2 :
        /\ req' = [fn |-> "compute_spatial_feats", args |-> args,
                   S |-> IpdSpectrogram(numCh, k)]
        /\ res' = ComputeSpatialFeats(args, IpdSpectrogram(numCh, k))
    /\ UNCHANGED auxVars

IpdNext == CallComputeSpatialFeats

SpecIpd == Init /\ [][IpdNext]_vars

\* ------------------------------------------------------- rir_generate_2d

\* Largest values explored of --retry, --num-rooms and --num-rirs.
MaxRetry == 2
MaxRooms == 2
MaxRirs == 2

Half == <<1, 2>>
Quarter == <<1, 4>>

\* np.log(10) and the default --speed, to the precision the model reckons in.
Ln10 == <<2303, 1000>>
Speed == QInt(343)

\* round(q, 3) of a fraction q >= 0: Rf.
Round3(q) == QNorm((2000 * q[1] + q[2]) \div (2 * q[2]), 1000)

\* The points of a range (a, b) that a UniformSampler or random.uniform is
\* taken to draw: its two ends.
Ends(range) == {range[1], range[2]}

\* Lines 209-217: rt60_min of a room l x w x h by the Sabine formula.
Rt60Min(l, w, h) ==
    LET vol  == QMul(QMul(l, w), h)
        area == QMul(QInt(2), QAdd(QAdd(QMul(l, w), QMul(l, h)), QMul(w, h)))
    IN  QDiv(QMul(QMul(QInt(24), area), Ln10), QMul(Speed, vol))

NoRoom == [made |-> FALSE, size |-> <<>>, kind |-> "", beta |-> Q0]
Room(l, w, h, kind, beta) ==
    [made |-> TRUE, size |-> <<l, w, h>>, kind |-> kind, beta |-> beta]

\* RoomGenerator.generate, lines 205-224, for the sampled size l, w, h: the
\* rooms it may return; NoRoom is the return value None.
GenerateResults(cfg, l, w, h) ==
    IF cfg.rt60.given
    THEN IF cfg.rt60.max = Q0
         THEN {Room(l, w, h, "rt60", Q0)}
         ELSE IF ~QLess(Rt60Min(l, w, h), cfg.rt60.max)
         THEN {NoRoom}
         ELSE {Room(l, w, h, "rt60", r) : r \in {Rt60Min(l, w, h), cfg.rt60.max}}
    ELSE {Room(l, w, h, "refl", QSqrt(QSub(Q1, a))) : a \in Ends(cfg.abs_range)}

\* What one call of generate may return under the configuration cfg.
Generated(cfg) ==
    UNION {GenerateResults(cfg, l, w, h) :
             l \in Ends(cfg.room_dim[1]), w \in Ends(cfg.room_dim[2]),
             h \in Ends(cfg.room_dim[3])}

\* Lines 246-254 of _place_mic: the centers the array may get in a room.
MicCenters(cfg, room) ==
    {<<QMul(room.size[1], a), QMul(room.size[2], b)>> :
        a \in Ends(cfg.array_relx), b \in Ends(cfg.array_rely)}

\* _max_src_dist, lines 256-261.
MaxSrcDist(center, rx, ry) ==
    LET dist(x, y) == QSqrt(QAdd(QMul(QSub(center[1], x), QSub(center[1], x)),
                                 QMul(QSub(center[2], y), QSub(center[2], y))))
    IN  QMax(QMax(dist(Q0, Q0), dist(Q0, ry)), QMax(dist(rx, Q0), dist(rx, ry)))

QMin(a, b) == IF QLess(b, a) THEN b ELSE a

\* The directions drawn, in quarter turns of the 0 to 2 pi of line 288.
DoaChoices == {0, 1}

\* Lines 281, 286, 288: the candidates one iteration of _place_spk may draw:
\* a height, a distance, and a direction in quarter turns.
Candidates(cfg, center, room) ==
    LET far == QMin(cfg.src_dist[2], MaxSrcDist(center, room.size[1], room.size[2]))
    IN  Ends(cfg.speaker_height) \X Ends(<<cfg.src_dist[1], far>>) \X DoaChoices

\* Lines 290-291: the position of a candidate.
SpeakerX(center, cand) == QAdd(center[1], QMul(CosQ(cand[3]), cand[2]))
SpeakerY(center, cand) == QAdd(center[2], QMul(SinQ(cand[3]), cand[2]))

\* Line 282: the candidate is not below the ceiling.
TooHigh(cand, room) == ~QLess(cand[1], room.size[3])

\* A mutant of Outside: a speaker on a wall is not refused.
OutsideOpenRoom(center, cand, room) ==
    \/ QLess(SpeakerX(center, cand), Q0)
    \/ QLess(room.size[1], SpeakerX(center, cand))
    \/ QLess(SpeakerY(center, cand), Q0)
    \/ QLess(room.size[2], SpeakerY(center, cand))

\* Line 294: 0 >= sx or sx >= rx or 0 >= sy or sy >= ry.
Outside(center, cand, room) ==
    \/ ~QLess(Q0, SpeakerX(center, cand))
    \/ ~QLess(SpeakerX(center, cand), room.size[1])
    \/ ~QLess(Q0, SpeakerY(center, cand))
    \/ ~QLess(SpeakerY(center, cand), room.size[2])

\* Lines 297-301: the entry of stats for an accepted candidate.
Stat(center, cand) ==
    [pos |-> <<Round3(SpeakerX(center, cand)), Round3(SpeakerY(center, cand)),
               Round3(cand[1])>>,
     doa |-> Round3(QInt(90 * cand[3])),
     dst |-> Round3(cand[2])]

\* The explored configurations: the ranges of the room and of its
\* reverberation, with the other ranges fixed.
Range(a, b) == <<a, b>>

Scenes ==
    {[rt60 |-> [given |-> FALSE, max |-> Q0],
      room_dim |-> <<Range(Q1, Q1), Range(Q1, Q1), Range(QInt(2), QInt(2))>>],
     [rt60 |-> [given |-> TRUE, max |-> Q0],
      room_dim |-> <<Range(Q1, Q1), Range(Q1, Q1), Range(Q1, Q1)>>],
     [rt60 |-> [given |-> TRUE, max |-> Quarter],
      room_dim |-> <<Range(Q1, QInt(2)), Range(Q1, Q1), Range(QInt(2), QInt(2))>>],
     [rt60 |-> [given |-> TRUE, max |-> Half],
      room_dim |-> <<Range(Q1, QInt(2)), Range(Q1, QInt(2)), Range(QInt(2), QInt(2))>>]}

RirConfigs ==
    {[fn |-> "RirSimulator.run", retry |-> retry, num_rooms |-> rooms, num_rirs |-> rirs,
      rt60 |-> scene.rt60, room_dim |-> scene.room_dim,
      abs_range |-> Range(Q0, <<3, 4>>),
      array_relx |-> Range(Half, Half), array_rely |-> Range(Half, Half),
      speaker_height |-> Range(Q1, QInt(2)), src_dist |-> Range(Quarter, Q1)] :
        retry \in 1..MaxRetry, rooms \in 1..MaxRooms, rirs \in 1..MaxRirs,
        scene \in Scenes}

\* Lines 277-301 for one candidate: whether the iteration refuses it (lines
\* 282 and 294), and the entry of stats it appends otherwise.
Draw(center, cand, room) ==
    [refused |-> TooHigh(cand, room) \/ Outside(center, cand, room),
     stat |-> Stat(center, cand)]

\* What generate may return, and what an iteration of _place_spk may draw in
\* each room, reckoned once for every explored configuration.
GenerateTable == {<<cfg, Generated(cfg)>> : cfg \in RirConfigs}

DrawTable ==
    UNION {UNION {{<<cfg, room, center,
                     {Draw(center, cand, room) : cand \in Candidates(cfg, center, room)}>> :
                       center \in MicCenters(cfg, room)} :
                    room \in Generated(cfg) \ {NoRoom}} :
             cfg \in RirConfigs}

Generate(cfg) == (CHOOSE entry \in GenerateTable : entry[1] = cfg)[2]

Draws(cfg, center, room) ==
    (CHOOSE entry \in DrawTable :
        entry[1] = cfg /\ entry[2] = room /\ entry[3] = center)[4]

\* Lines 341-343: run begins.  calls counts the calls of run_for_instance,
\* draws the candidates drawn by the running _place_spk, rirs_cfg the
\* entries of self.rirs_cfg, spins the parity of the number of times the
\* running loop of lines 308-309 got None.
StartRun ==
    /\ pc = "idle" /\ req.fn = "none"
    /\ \E cfg \in RirConfigs :
        /\ req' = cfg
        /\ res' = [err |-> "", done |-> 0, ntry |-> 0, calls |-> 0, rirs_cfg |-> 0,
                   room |-> NoRoom, center |-> <<Q0, Q0>>,
                   sdone |-> 0, sntry |-> 0, draws |-> 0, stats |-> <<>>,
                   succ |-> FALSE, spins |-> 0]
    /\ pc' = "run"
    /\ UNCHANGED <<X, epochs, ep, f, n, W, Y, Gr, ret, Wprev, written>>

\* Lines 344-348: one more try of run, which ends the loop or calls
\* run_for_instance.
RunLoop ==
    /\ pc = "run"
    /\ IF res.ntry + 1 > req.retry * req.num_rooms
       THEN /\ res' = [res EXCEPT !.ntry = @ + 1]
            /\ pc' = "dump"
       ELSE /\ res' = [res EXCEPT !.ntry = @ + 1, !.calls = @ + 1, !.room = NoRoom]
            /\ pc' = "generate"
    /\ UNCHANGED <<X, epochs, ep, f, n, W, Y, Gr, ret, Wprev, written, req>>

\* Lines 308-309: generate returned None, and the loop calls it again.
GenerateNone ==
    /\ pc = "generate"
    /\ NoRoom \in Generate(req)
    /\ res' = [res EXCEPT !.spins = 1 - @]
    /\ UNCHANGED <<pc, X, epochs, ep, f, n, W, Y, Gr, ret, Wprev, written, req>>

\* Lines 308-310 and 263-274: generate returned a room; the array is placed
\* and _place_spk begins.
GenerateRoom ==
    /\ pc = "generate"
    /\ \E room \in Generate(req) \ {NoRoom} : \E center \in MicCenters(req, room) :
        res' = [res EXCEPT !.room = room, !.center = center, !.spins = 0,
                           !.sdone = 0, !.sntry = 0, !.draws = 0, !.stats = <<>>]
    /\ pc' = "place_spk"
    /\ UNCHANGED <<X, epochs, ep, f, n, W, Y, Gr, ret, Wprev, written, req>>

\* Lines 277-304: one iteration of the loop of _place_spk, with the return
\* of done == num_rirs and stats when the iteration leaves the loop.
PlaceSpkStep ==
    /\ pc = "place_spk"
    /\ IF res.sntry + 1 > req.retry * req.num_rirs
       THEN /\ res' = [res EXCEPT !.sntry = @ + 1,
                                  !.succ = (res.sdone = req.num_rirs)]
            /\ pc' = "placed"
       ELSE \E draw \in Draws(req, res.center, res.room) :
              IF draw.refused
              THEN /\ res' = [res EXCEPT !.sntry = @ + 1, !.draws = @ + 1]
                   /\ pc' = "place_spk"
              ELSE /\ res' = [res EXCEPT !.sntry = @ + 1, !.draws = @ + 1,
                                         !.sdone = @ + 1,
                                         !.stats = Append(@, draw.stat),
                                         !.succ = (res.sdone + 1 = req.num_rirs)]
                   /\ pc' = IF res.sdone + 1 = req.num_rirs THEN "placed"
                            ELSE "place_spk"
    /\ UNCHANGED <<X, epochs, ep, f, n, W, Y, Gr, ret, Wprev, written, req>>

\* Lines 312-338, then 349-352: with success the responses are made and
\* the room is recorded; run counts the room and leaves its loop when all
\* rooms are done.
FinishInstance ==
    /\ pc = "placed"
    /\ LET done == IF res.succ THEN res.done + 1 ELSE res.done
       IN  /\ res' = [res EXCEPT !.done = done,
                                 !.rirs_cfg = IF res.succ THEN @ + 1 ELSE @]
           /\ pc' = IF done = req.num_rooms THEN "dump" ELSE "run"
    /\ UNCHANGED <<X, epochs, ep, f, n, W, Y, Gr, ret, Wprev, written, req>>

\* Lines 353-357: the configurations are dumped and run returns.
Dump ==
    /\ pc = "dump"
    /\ pc' = "done"
    /\ UNCHANGED <<X, epochs, ep, f, n, W, Y, Gr, ret, Wprev, written, callVars>>

RirNext ==
    \/ StartRun
    \/ RunLoop
    \/ GenerateNone
    \/ GenerateRoom
    \/ PlaceSpkStep
    \/ FinishInstance
    \/ Dump

SpecRir == Init /\ [][RirNext]_vars

\* Every step that can be taken is taken in the end, and generate, which
\* draws the room at random, returns a room in the end if it can return one.
SpecRirFair == SpecRir /\ WF_vars(RirNext) /\ SF_vars(GenerateRoom)

\* ------------------------------------------------------ oracle_separate

\* Largest number of targets of an explored call of compute_mask.
MaxTargets == 3

\* The shape T x F of the explored spectrograms of compute_mask.
MaskShape == <<1, 2>>

\* The values of their cells: two of magnitude 1 and one of magnitude 2.
MaskVals == {C1, Ci, <<QInt(2), Q0>>}

MaskTypes == {"ibm", "irm", "iam", "psm"}

\* The T x F spectrograms, and the lists of numS of them.
MaskMatrices ==
    {Arr(MaskShape[1], [t \in 1..MaskShape[1] |->
         Arr(MaskShape[2], [g \in 1..MaskShape[2] |-> v[<<t, g>>]])]) :
       v \in [(1..MaskShape[1]) \X (1..MaskShape[2]) -> MaskVals]}

TargetLists(numS) ==
    {Arr(numS, [k \in 1..numS |-> pick[k]]) : pick \in [1..numS -> MaskMatrices]}

\* The mixtures: one value in every cell.
MaskMixtures ==
    {Arr(MaskShape[1], [t \in 1..MaskShape[1] |->
         Arr(MaskShape[2], [g \in 1..MaskShape[2] |-> v])]) : v \in {C1, Ci}}

\* The magnitudes of the targets in the cell (t, g): a column of
\* np.stack([cmat_abs(mat) for mat in targets_list]).
Magnitudes(targets_list, t, g) ==
    Arr(Len(targets_list), [k \in 1..Len(targets_list) |-> CAbs(targets_list[k][t][g])])

Reversed(s) == Arr(Len(s), [k \in 1..Len(s) |-> s[Len(s) + 1 - k]])

\* A mutant of MaxIndex: among equal maxima the last target is taken.
MaxIndexLast(targets_list, t, g) ==
    Len(targets_list) - 1 - ArgMax(Reversed(Magnitudes(targets_list, t, g)))

\* Lines 28-29: max_index in the cell (t, g), counted from 0.
MaxIndex(targets_list, t, g) == ArgMax(Magnitudes(targets_list, t, g))

\* Lines 32-35: the denominator in the cell (t, g).
Denominator(mixture, targets_list, mask_type, t, g) ==
    IF mask_type = "irm"
    THEN QAdd(QSum(Magnitudes(targets_list, t, g)), EPSILON)
    ELSE QAdd(CAbs(mixture[t][g]), EPSILON)

\* Lines 36-43: the cell (t, g) of the mask of the target mat.
MaskCell(mixture, targets_list, mask_type, mat, t, g) ==
    IF mask_type # "psm"
    THEN QDiv(CAbs(mat[t][g]), Denominator(mixture, targets_list, mask_type, t, g))
    ELSE QDiv(QMul(CAbs(mat[t][g]), CosQ(Angle(mixture[t][g]) - Angle(mat[t][g]))),
              Denominator(mixture, targets_list, mask_type, t, g))

\* compute_mask, lines 19-45.  np.stack refuses an empty list.
ComputeMask(mixture, targets_list, mask_type) ==
    LET numS == Len(targets_list)
        numT == Len(mixture)
        numF == Len(mixture[1])
    IN  IF mask_type = "ibm"
        THEN IF numS = 0
             THEN [err |-> "ValueError", masks |-> <<>>]
             ELSE [err |-> "",
                   masks |-> Arr(numS, [k \in 1..numS |->
                       Arr(numT, [t \in 1..numT |->
                           Arr(numF, [g \in 1..numF |->
                               MaxIndex(targets_list, t, g) = k - 1])])])]
        ELSE [err |-> "",
              masks |-> Arr(numS, [k \in 1..numS |->
                  Arr(numT, [t \in 1..numT |->
                      Arr(numF, [g \in 1..numF |->
                          MaskCell(mixture, targets_list, mask_type,
                                   targets_list[k], t, g)])])])]

\* A call of compute_mask.
CallComputeMask ==
    /\ pc = "idle" /\ req.fn = "none"
    /\ \E numS \in 0..MaxTargets : \E targets_list \in TargetLists(numS) :
       \E mixture \in MaskMixtures : \E mask_type \in MaskTypes :
        /\ req' = [fn |-> "compute_mask", mixture |-> mixture,
                   targets_list |-> targets_list, mask_type |-> mask_type]
        /\ res' = ComputeMask(mixture, targets_list, mask_type)
    /\ UNCHANGED auxVars

MaskNext == CallComputeMask

SpecMask == Init /\ [][MaskNext]_vars

\* ------------------------------------------------- claims: rir_generate_2d

RirRunning == req.fn = "RirSimulator.run"

\* C16: RirSimulator.run always terminates, for every configured rt60 range
\* and room-dimension range: a run that was started returns in the end.
C16_RunTerminates == [](RirRunning => <>(pc = "done"))

\* _place_spk is running or has just returned.
InPlaceSpk == RirRunning /\ pc \in {"place_spk", "placed"}

\* The entry of stats lies below the ceiling and strictly inside the walls.
InsideRoom(stat, room) ==
    /\ QLess(stat.pos[3], room.size[3])
    /\ QLess(Q0, stat.pos[1]) /\ QLess(stat.pos[1], room.size[1])
    /\ QLess(Q0, stat.pos[2]) /\ QLess(stat.pos[2], room.size[2])

\* C17: _place_spk draws at most retry * num_rirs candidates; its stats hold
\* one entry per accepted candidate, never more than num_rirs, each below
\* the ceiling and strictly inside the room; and it returns success exactly
\* when it has accepted num_rirs candidates.
C17_PlaceSpkBounded ==
    InPlaceSpk =>
        /\ res.draws <= req.retry * req.num_rirs
        /\ Len(res.stats) = res.sdone
        /\ Len(res.stats) <= req.num_rirs
        /\ \A k \in 1..Len(res.stats) : InsideRoom(res.stats[k], res.room)
        /\ pc = "placed" => (res.succ <=> Len(res.stats) = req.num_rirs)

\* _place_spk has returned success with several speakers placed, after
\* refusing a candidate on a wall or at the ceiling.
C17_Witness ==
    /\ InPlaceSpk /\ pc = "placed"
    /\ res.succ /\ Len(res.stats) > 1 /\ res.draws > Len(res.stats)

\* ------------------------------------------------- claims: oracle_separate

IbmReturned == req.fn = "compute_mask" /\ req.mask_type = "ibm" /\ res.err = ""

\* The targets whose mask is true in the cell (t, g).
Selected(t, g) == {k \in 1..Len(res.masks) : res.masks[k][t][g]}

\* C18: for mask type "ibm" and S >= 1 targets, compute_mask returns S
\* masks; in every cell exactly one of them is true, no target has a larger
\* magnitude there than the selected one, and every target before it has a
\* smaller one.
C18_IbmPartitions ==
    IbmReturned =>
        /\ Len(res.masks) = Len(req.targets_list)
        /\ \A t \in 1..MaskShape[1] : \A g \in 1..MaskShape[2] :
            /\ Cardinality(Selected(t, g)) = 1
            /\ \A k \in Selected(t, g) : \A j \in 1..Len(req.targets_list) :
                /\ ~QLess(CAbs(req.targets_list[k][t][g]), CAbs(req.targets_list[j][t][g]))
                /\ j < k => QLess(CAbs(req.targets_list[j][t][g]),
                                  CAbs(req.targets_list[k][t][g]))

\* Three targets: in the first cell all three tie with unequal values and
\* the first is selected; in the second the last two tie for the maximum and
\* the second is selected.
C18_Witness ==
    /\ IbmReturned
    /\ Len(req.targets_list) = 3
    /\ req.targets_list[1][1][1] = Ci
    /\ req.targets_list[2][1][1] = C1
    /\ req.targets_list[3][1][1] = C1
    /\ req.targets_list[1][1][2] = C1
    /\ req.targets_list[2][1][2] = <<QInt(2), Q0>>
    /\ req.targets_list[3][1][2] = <<QInt(2), Q0>>
    /\ Selected(1, 1) = {1} /\ Selected(1, 2) = {2}

\* ------------------------------------------------------ claims: auxiva

Shape(a) == <<Len(a), Len(a[1]), Len(a[1][1])>>

\* w^H v w for a column w and a matrix v.
QuadForm(w, v) == InnerConj(w, MatVec(v, w))

\* C1: auxiva(X, epochs=0) returns an array of the shape of X whose every
\* element equals the corresponding element of X.
C1_IdentityRoundTrip ==
    (pc = "returned" /\ epochs = 0) => (Shape(ret) = Shape(X) /\ ret = X)

C1_Witness ==
    /\ pc = "returned" /\ epochs = 0
    /\ NumBins = 2
    /\ X[2][1][2] = Ci /\ X[1][2][1] = C1
    /\ ret = X

\* C2: the column that an update writes into column n of W_f satisfies
\* w^H V w = 1 for the weighted covariance V of that update.
C2_StoredColumnIsNormalized ==
    [][(pc = "update" /\ pc' # "raised")
          => QuadForm(Col(W'[f], n), CurV) = C1]_vars

\* The columns of the current iteration written so far are those that come
\* before <<f, n>> in the order of the two inner loops, and every other
\* column is as the previous iteration left it.
WrittenInOrder ==
    /\ written = {p \in (1..NumBins) \X (1..NumCh) :
                     p[1] < f \/ (p[1] = f /\ p[2] < n)}
    /\ \A g \in 1..NumBins : \A k \in 1..NumCh :
          <<g, k>> \notin written => Col(W[g], k) = Col(Wprev[g], k)

\* The matrix of bin f whose columns before n are the ones written in this
\* iteration and whose other columns are those of the previous iteration.
MixedColumns ==
    Arr(NumCh, [r \in 1..NumCh |->
        Arr(NumCh, [k \in 1..NumCh |->
            IF <<f, k>> \in written THEN W[f][r][k] ELSE Wprev[f][r][k]])])

\* C3: within one iteration and bin the columns are updated in increasing n
\* order, the solve for column n uses the columns 0..n-1 already written in
\* this iteration and the columns n..N-1 of the previous iteration, and an
\* update of one bin reads and writes no other bin's W.
C3_SequentialColumnUpdates ==
    [][/\ pc = "update" => WrittenInOrder
       /\ (pc = "update" /\ pc' # "raised") =>
            /\ Col(W'[f], n)
                 = Rescale(Solve(System(MixedColumns, CurV), Eye(NumCh)[n]).w, CurV)
            /\ \A k \in 1..NumCh : k # n => Col(W'[f], k) = Col(W[f], k)
            /\ \A g \in 1..NumBins : g # f => W'[g] = W[g]
            /\ written' = written \cup {<<f, n>>}
            /\ \/ pc' = "update" /\ f' = f /\ n' = n + 1 /\ n < NumCh
               \/ pc' = "update" /\ f' = f + 1 /\ n' = 1 /\ n = NumCh
               \/ pc' = "recompute" /\ f = NumBins /\ n = NumCh]_vars

C3_Witness ==
    /\ pc = "update" /\ ep = 1 /\ n = 2
    /\ <<f, 1>> \in written
    /\ Col(W[f], 1) # Col(Wprev[f], 1)
    /\ W[f][2][1] # C0
    /\ Col(W[f], 2) = Col(Wprev[f], 2)

\* C4: when W_f^H V is singular the call ends in an error: nothing is
\* returned, the failing column is not replaced, and no later bin or
\* iteration is processed.
C4_SingularSystemIsFatal ==
    [][/\ (pc = "update" /\ Det(CurSystem) = C0)
            => (pc' = "raised" /\ W' = W /\ Y' = Y /\ ret' = NoValue)
       /\ pc = "raised" => vars' = vars]_vars

C4_Witness ==
    /\ pc = "raised"
    /\ ret = NoValue
    /\ f = 2 /\ written # {}
    /\ ep + 1 < epochs
    /\ Det(CurSystem) = C0

\* Source c has no energy in frame t of the mixture.
Silent(c, t) == \A g \in 1..NumBins : X[c][t][g] = C0

\* C5 as stated: for a mixture in which a source has zero energy in some or
\* all frames (the all-zero mixture included), auxiva with epochs >= 1 does
\* not raise.
C5_SilentSourceNeverRaises ==
    (pc # "idle" /\ epochs >= 1 /\ \E c \in 1..NumCh : \E t \in 1..NumFrames : Silent(c, t))
        => pc # "raised"

\* C5 as amended: every weight is the finite value 1 / (R_n(t) + EPSILON),
\* also where R_n(t) = 0; the call raises only for a singular W_f^H V (as for
\* the all-zero mixture), and what it returns has the shape of the input.
C5_WeightsFiniteRaiseOnlyIfSingular ==
    /\ pc \in {"update", "recompute", "raised"} =>
          \A c \in 1..NumCh : \A t \in 1..NumFrames :
              /\ Finite(Gr[c][t])
              /\ Gr[c][t] = QInv(QAdd(Envelope(Y)[t][c], EPSILON))
    /\ pc = "raised" => Det(CurSystem) = C0
    /\ pc = "returned" => Shape(ret) = Shape(X)

C5_Witness ==
    /\ pc = "returned" /\ epochs >= 1
    /\ Silent(1, 2) /\ ~Silent(1, 1)
    /\ Gr[1][2] = QInv(EPSILON)
    /\ Shape(ret) = Shape(X)

\* --------------------------------------------------------- claims: ssl

SslCall == req.fn \in {"ml_ssl", "srp_ssl", "music_ssl"}

\* The numbers of frequency bins of the spectrogram and of the bank differ.
BinsDiffer ==
    /\ req.stft.ndim = 3
    /\ Len(req.stft.a[1][1]) # Len(req.sv[1][1])

\* C6: a call of ml_ssl, srp_ssl or music_ssl whose bank has another number
\* of frequency bins than the spectrogram, one of the two numbers being 1
\* included, ends in an error and returns no index.
C6_BinMismatchRaises == (SslCall /\ BinsDiffer) => (res.err # "" /\ res.index = <<>>)

\* C7: srp_ssl called with srp_pair None raises the configuration error of
\* its first statement, whatever stft, sv and mask are: no shape was read,
\* no mask built and no phase or score computed.
C7_MissingPairRaisesFirst ==
    (req.fn = "srp_ssl" /\ ~req.srp_pair.given)
        => (res.err = SrpPairError /\ res.steps = <<>> /\ res.index = <<>>)

\* srp_ssl was called without srp_pair on an array from which no T and F can
\* be read, and raised the configuration error.
C7_Witness ==
    /\ req.fn = "srp_ssl"
    /\ ~req.srp_pair.given
    /\ req.stft.ndim # 3
    /\ req.mask.ndim = 0
    /\ res.err = SrpPairError

\* The scalars, one per (direction, bin), that field k multiplies a bank by.
Scalars == <<CScale(QInt(2), C1), Ci, CAdd(C1, Ci)>>

ScaledBank(sv, k) ==
    Arr(Len(sv), [a \in 1..Len(sv) |->
        Arr(Len(sv[a]), [c \in 1..Len(sv[a]) |->
            Arr(Len(sv[a][c]), [g \in 1..Len(sv[a][c]) |->
                CMul(Scalars[((a * k + g) % 3) + 1], sv[a][c][g])])])])

\* C9: ml_ssl gives the same scores, and so the same index, for a bank and
\* for the bank with every (direction, bin) vector multiplied by a non-zero
\* scalar of its own.
C9_ScalingKeepsScores ==
    (req.fn = "ml_ssl" /\ res.err = "")
        => \A k \in 1..2 :
              LET scaled == MlSsl(req.stft, ScaledBank(req.sv, k), req.compression,
                                  req.eps, req.norm, req.mask)
              IN  scaled.err = "" /\ scaled.scores = res.scores /\ scaled.index = res.index

\* ml_ssl scored two directions differently for a bank of two bins whose
\* directions have different norms, and the scaled bank has other norms.
C9_Witness ==
    /\ req.fn = "ml_ssl"
    /\ res.err = ""
    /\ Len(req.sv[1][1]) = 2
    /\ SvNormSq(req.sv)[1] # SvNormSq(req.sv)[2]
    /\ SvNormSq(ScaledBank(req.sv, 1)) # SvNormSq(req.sv)
    /\ res.scores[1][1] # res.scores[1][2]

\* The mask is zero everywhere but in the cell cell.
OnlyCell(mask, cell) ==
    /\ mask.ndim = 2
    /\ \A t \in 1..Len(mask.a) : \A g \in 1..Len(mask.a[1]) :
          (mask.a[t][g] # Q0) <=> (<<t, g>> = cell)

\* The spectrograms s1 and s2 hold the same values in the cell cell.
AgreeAt(s1, s2, cell) ==
    \A c \in 1..Len(s1.a) : s1.a[c][cell[1]][cell[2]] = s2.a[c][cell[1]][cell[2]]

\* The call of the request with the spectrogram stft in place of its own.
SameCallWith(stft) ==
    IF req.fn = "ml_ssl"
    THEN MlSsl(stft, req.sv, req.compression, req.eps, req.norm, req.mask)
    ELSE SrpSsl(stft, req.sv, req.srp_pair, req.mask)

CellsOf(stft) == (1..Len(stft.a[1])) \X (1..Len(stft.a[1][1]))

\* C10: with a mask that is zero in every cell but one, ml_ssl (with the log
\* and with a compression exponent) and srp_ssl return the same index for
\* any two spectrograms that agree in that cell.
C10_OnlyUnmaskedCellMatters ==
    (req.fn \in {"ml_ssl", "srp_ssl"} /\ res.err = "")
        => \A cell \in CellsOf(req.stft) :
              OnlyCell(req.mask, cell)
                  => \A other \in Stfts(ShapeOf(req.stft)) :
                        AgreeAt(req.stft, other, cell)
                            => SameCallWith(other).index = res.index

\* ml_ssl was called with a mask of one cell out of two on a spectrogram
\* that, without the mask, gives another index than a spectrogram agreeing
\* with it in that cell.
C10_Witness ==
    /\ req.fn = "ml_ssl"
    /\ res.err = ""
    /\ \E cell \in CellsOf(req.stft) :
          /\ OnlyCell(req.mask, cell)
          /\ Cardinality(CellsOf(req.stft)) = 2
          /\ \E other \in Stfts(ShapeOf(req.stft)) :
                /\ AgreeAt(req.stft, other, cell)
                /\ MlSsl(other, req.sv, req.compression, req.eps, req.norm, NoMask).index
                     # MlSsl(req.stft, req.sv, req.compression, req.eps, req.norm,
                             NoMask).index

\* The call of the request with the mask mask in place of its own.
SameCallWithMask(mask) ==
    CASE req.fn = "ml_ssl" ->
            MlSsl(req.stft, req.sv, req.compression, req.eps, req.norm, mask)
      [] req.fn = "srp_ssl" -> SrpSsl(req.stft, req.sv, req.srp_pair, mask)
      [] req.fn = "music_ssl" -> MusicSsl(req.stft, req.sv, mask, req.pick)

\* C13: ml_ssl, srp_ssl and music_ssl called without a mask end as the same
\* call with the explicit T x F mask of ones: with the same index, or the
\* same error.
C13_NoMaskIsOnesMask ==
    (SslCall /\ req.mask.ndim = 0 /\ req.stft.ndim = 3)
        => LET explicit == SameCallWithMask(OnesMask(ShapeOf(req.stft)[1],
                                                     ShapeOf(req.stft)[2]))
           IN  explicit.err = res.err /\ explicit.index = res.index

\* music_ssl, called without a mask on two cells, chose the second direction.
C13_Witness ==
    /\ req.fn = "music_ssl"
    /\ req.mask.ndim = 0
    /\ req.stft.ndim = 3
    /\ Cardinality(CellsOf(req.stft)) = 2
    /\ res.err = ""
    /\ res.index = <<1>>
    /\ res.scores[1][1] # res.scores[1][2]

\* C14: while auxiva runs, and when it has returned or raised, the mixture
\* the caller passed holds the values it was passed with (the steps write
\* W, Y and the weights only); and after ml_ssl, srp_ssl or music_ssl has
\* returned or raised, the caller's stft, sv and mask are the arguments of
\* the call.
C14_InputsUnchanged ==
    [][/\ pc # "idle" => X' = X
       /\ SslCall' => res'.inputs = [stft |-> req'.stft, sv |-> req'.sv,
                                     mask |-> req'.mask]]_vars

\* ml_ssl returned an index after normalizing the spectrogram and a bank that
\* was not normalized, with the default mask.
C14_Witness ==
    /\ req.fn = "ml_ssl"
    /\ res.err = ""
    /\ req.norm
    /\ req.mask.ndim = 0
    /\ NormalizedBank(req.sv) # req.sv
    /\ res.inputs.sv = req.sv

\* The signal of a source in direction a whose image on channel 1 is the
\* channel 1 of the spectrogram stft, T x F.
SourceSignal(stft, sv, a) ==
    Arr(Len(stft.a[1]), [t \in 1..Len(stft.a[1]) |->
        Arr(Len(stft.a[1][1]), [g \in 1..Len(stft.a[1][1]) |->
            CDiv(stft.a[1][t][g], sv[a][1][g])])])

\* The spectrogram stft is that of one source in direction a without noise:
\* every cell is the signal of the source times the steering vector of a.
SingleSource(stft, sv, a) ==
    /\ stft.ndim = 3
    /\ Len(stft.a[1][1]) = Len(sv[1][1])
    /\ \A c \in 1..Len(stft.a) : \A t \in 1..Len(stft.a[1]) :
       \A g \in 1..Len(stft.a[1][1]) :
          stft.a[c][t][g] = CMul(SourceSignal(stft, sv, a)[t][g], sv[a][c][g])

\* The source is heard in every bin: its signal is not zero in some frame.
HeardInEveryBin(stft, sv, a) ==
    \A g \in 1..Len(stft.a[1][1]) : \E t \in 1..Len(stft.a[1]) :
        SourceSignal(stft, sv, a)[t][g] # C0

\* music_ssl returned for the request, whose mask is omitted or all ones.
MusicReturned ==
    /\ req.fn = "music_ssl"
    /\ res.err = ""
    /\ req.mask.ndim = 0 \/ req.mask = OnesMask(ShapeOf(req.stft)[1], ShapeOf(req.stft)[2])

\* The score of direction a is the least, and a is returned when no other
\* direction has that score.
LeastAndReturned(a) ==
    /\ \A b \in 1..Len(res.scores[1]) : ~QLess(res.scores[1][b], res.scores[1][a])
    /\ (\A b \in 1..Len(res.scores[1]) : b # a => res.scores[1][b] # res.scores[1][a])
           => res.index = <<a - 1>>

\* C15: for the spectrogram of a single source without noise in a direction
\* a of the bank, the score of music_ssl is least at a, and a is returned
\* when no other direction attains that score.
C15_SourceDirectionIsLeast ==
    MusicReturned
        => \A a \in 1..Len(req.sv) :
              SingleSource(req.stft, req.sv, a) => LeastAndReturned(a)

\* C15, amended: the same, for a source that is heard in every bin.
C15_HeardSourceDirectionIsLeast ==
    MusicReturned
        => \A a \in 1..Len(req.sv) :
              (SingleSource(req.stft, req.sv, a) /\ HeardInEveryBin(req.stft, req.sv, a))
                  => LeastAndReturned(a)

\* music_ssl returned the second direction for a source heard from there,
\* with the score zero, and a larger score for the first direction.
C15_Witness ==
    /\ MusicReturned
    /\ SingleSource(req.stft, req.sv, 2)
    /\ HeardInEveryBin(req.stft, req.sv, 2)
    /\ res.scores[1][2] = Q0
    /\ QLess(Q0, res.scores[1][1])
    /\ res.index = <<1>>

\* --------------------------------------------------------- claims: ipd

IpdCall == req.fn = "compute_spatial_feats" /\ req.args.type = "ipd"

\* The number of channels of a spectrogram: a T x F array is one channel.
ChannelCount(S0) == IF S0.ndim = 3 THEN Len(S0.a) ELSE 1

\* Some requested index is not below the number of channels.
IndexBeyondChannels(pairs, numCh) ==
    \E k \in 1..Len(pairs) : \E j \in 1..Len(pairs[k]) :
        pairs[k][j] \in IntTokens /\ IntOf(pairs[k][j]) >= numCh

\* C8: in IPD mode compute_spatial_feats fails, and returns no features,
\* whenever the spectrogram has fewer than 2 channels or an index of a
\* requested pair is not below the number of channels.
C8_BadChannelsRejected ==
    (IpdCall /\ (ChannelCount(req.S) < 2
                 \/ IndexBeyondChannels(req.args.ipd_pair, ChannelCount(req.S))))
        => (res.err # "" /\ res.feats = <<>>)

\* The request is a call in IPD mode that returned features.
IpdReturned == IpdCall /\ res.err = ""

\* The pair list with the two indices of every pair exchanged.
ReversedPairs(pairs) ==
    Arr(Len(pairs), [k \in 1..Len(pairs) |-> <<pairs[k][2], pairs[k][1]>>])

\* The matrix m with every value negated.
Negated(m) ==
    Arr(Len(m), [t \in 1..Len(m) |->
        Arr(Len(m[t]), [g \in 1..Len(m[t]) |-> QNeg(m[t][g])])])

\* The call of the request with the pair list pairs in place of its own.
SameFeatsCallWith(pairs) ==
    ComputeSpatialFeats([req.args EXCEPT !.ipd_pair = pairs], req.S)

\* C11: with the cos and the sin encoding off, the features of the pairs
\* (L, R) are, in every frame and bin, the negation of the features of the
\* reversed pairs (R, L).
C11_ReversedPairNegates ==
    (IpdReturned /\ ~req.args.ipd_cos /\ ~req.args.ipd_sin)
        => LET reversed == SameFeatsCallWith(ReversedPairs(req.args.ipd_pair))
           IN  reversed.err = "" /\ reversed.feats = Negated(res.feats)

\* A raw-angle call returned, for a pair of two different channels, a phase
\* difference that is not zero.
C11_Witness ==
    /\ IpdReturned /\ ~req.args.ipd_cos /\ ~req.args.ipd_sin
    /\ Len(req.args.ipd_pair) = 1
    /\ req.args.ipd_pair[1][1] # req.args.ipd_pair[1][2]
    /\ \E t \in 1..Len(res.feats) : \E g \in 1..Len(res.feats[t]) :
          res.feats[t][g] # Q0

\* The features of the call for the k-th pair of the request alone.
SinglePairFeats(k) == SameFeatsCallWith(<<req.args.ipd_pair[k]>>).feats

\* C12: the result has the T rows of the spectrogram, and its k-th block of
\* columns is the matrix of the call for the k-th pair alone, in the order of
\* the pair list.
C12_BlocksInPairOrder ==
    IpdReturned
        => LET numP  == Len(req.args.ipd_pair)
               width == Len(SinglePairFeats(1)[1])
           IN  /\ Len(res.feats) = Len(req.S.a[1])
               /\ \A t \in 1..Len(res.feats) :
                     /\ Len(res.feats[t]) = numP * width
                     /\ \A k \in 1..numP : \A j \in 1..width :
                           res.feats[t][(k - 1) * width + j] = SinglePairFeats(k)[t][j]

\* A call for two pairs returned, and the two pairs alone give different
\* matrices.
C12_Witness ==
    /\ IpdReturned
    /\ Len(req.args.ipd_pair) = 2
    /\ SinglePairFeats(1) # SinglePairFeats(2)

====
